---- MODULE Spec2Model ----
(***************************************************************************)
(* Model of the useAuth hook (src/src/hooks/useAuth.ts): the AuthState     *)
(* fields, the mount effect (initializeAuth and the onAuthStateChange      *)
(* handler) and the five public actions.  Every `await` of the source is a *)
(* suspension point: one action of the model is one continuation, from the *)
(* point where a promise resolves up to the next `await` (or the end of    *)
(* the function).  The backend (supabase), the profile table and           *)
(* localStorage are the environment: their answers are inputs drawn from   *)
(* small sets.                                                             *)
(***************************************************************************)
EXTENDS Integers, FiniteSets

\* How many event reactions / public-action invocations may be in flight at once.
MaxReactions == 1
MaxCalls == 1
\* How many events are delivered and public actions called in one run.
MaxStarted == 2

Ids == {"u1", "u2"}
Null == "null"
NoUser == Null

ReactionSlots == 1..MaxReactions
CallSlots == 1..MaxCalls

(***************************************************************************)
(* Error values.  A message is a string; `includes` is decided by the      *)
(* needles each message of the model contains (case-sensitive, as          *)
(* String.prototype.includes is).                                          *)
(***************************************************************************)
NetworkMessage == "Network connection failed. Please check your internet connection and try again."
CredentialsMessage == "Invalid email or password. Please check your credentials and try again."
ConfirmMessage == "Please check your email and click the confirmation link before signing in."
ExistsMessage == "An account with this email already exists. Please sign in instead."
PermissionMessage == "Account permissions issue. Please contact support if this persists."
ServerMessage == "Our servers are temporarily unavailable. Please try again in a few minutes."
FallbackMessage == "An unexpected error occurred. Please try again."
UnreachableMessage == "Unable to connect to authentication service"
NoUserDataMessage == "User creation failed - no user data returned"
EmptyProfileMessage == "User profile data is empty"

Needles(message) ==
    CASE message = "Failed to fetch" -> {"fetch"}
      [] message = "A network error occurred" -> {"network"}
      [] message = "Invalid login credentials" -> {"Invalid login credentials"}
      [] message = "Email not confirmed" -> {"Email not confirmed"}
      [] message = "User already registered" -> {"User already registered"}
      [] message = "new row violates row-level security policy" -> {"row-level security policy"}
      [] message = "The result contains 0 rows" -> {"0 rows"}
      [] message = "User profile not found" -> {"User profile not found"}
      [] OTHER -> {}

\* error?.message?.includes(needle)
includes(message, needle) == message # Null /\ needle \in Needles(message)

\* A raw failure: what a backend call returns as `error` or throws.  isError
\* is `error instanceof Error`; passes counts the runs of handleError the
\* value has been through (0 for a raw failure).
RawError(message, code, status, isError) ==
    [message |-> message, code |-> code, status |-> status, isError |-> isError, passes |-> 0]

\* new Error(message)
NewError(message) == RawError(message, Null, 0, TRUE)

NoError == [message |-> Null, code |-> Null, status |-> 0, isError |-> FALSE, passes |-> 0]

\* handleError, lines 52-68: the first matching branch.
Kind(error) ==
    IF includes(error.message, "fetch") \/ includes(error.message, "network")
        THEN "NetworkError"
    ELSE IF includes(error.message, "Invalid login credentials") \/ error.code = "invalid_credentials"
        THEN "InvalidCredentials"
    ELSE IF includes(error.message, "Email not confirmed") \/ error.code = "email_not_confirmed"
        THEN "EmailNotConfirmed"
    ELSE IF includes(error.message, "User already registered") \/ error.code = "user_already_exists"
        THEN "UserAlreadyExists"
    ELSE IF includes(error.message, "row-level security policy") \/ error.code = "42501"
        THEN "PermissionDenied"
    ELSE IF error.status \in {500, 502, 503, 504}
        THEN "ServerUnavailable"
    ELSE "Unknown"

UserMessage(error) ==
    CASE Kind(error) = "NetworkError" -> NetworkMessage
      [] Kind(error) = "InvalidCredentials" -> CredentialsMessage
      [] Kind(error) = "EmailNotConfirmed" -> ConfirmMessage
      [] Kind(error) = "UserAlreadyExists" -> ExistsMessage
      [] Kind(error) = "PermissionDenied" -> PermissionMessage
      [] Kind(error) = "ServerUnavailable" -> ServerMessage
      [] OTHER -> IF error.message # Null THEN error.message ELSE FallbackMessage

\* The value handleError returns: new Error(userMessage).
handleError(error) ==
    [message |-> UserMessage(error), code |-> Null, status |-> 0, isError |-> TRUE,
     passes |-> error.passes + 1]

\* a classifier for which every failure is a lost connection
StatusAfterHandleAlways(error, status) == "disconnected"

\* handleError's setConnectionStatus('disconnected'), lines 54 and 65.
StatusAfterHandle(error, status) ==
    IF Kind(error) \in {"NetworkError", "ServerUnavailable"} THEN "disconnected" ELSE status

(***************************************************************************)
(* Answers of the environment.  A backend call returns without error,      *)
(* returns {error}, or throws.                                             *)
(***************************************************************************)
FetchFailed == RawError("Failed to fetch", Null, 0, TRUE)
BadCredentials == RawError("Invalid login credentials", "invalid_credentials", 400, TRUE)
Unavailable == RawError("Service unavailable", Null, 503, TRUE)
\* The profile table's answer to .single() when no row matches, as the
\* handler's test at line 196 expects it.
RowMissing == RawError("The result contains 0 rows", "PGRST116", 406, FALSE)
\* A thrown value that is not an Error object.
ThrownValue == RawError(Null, Null, 0, FALSE)

Ok == [t |-> "ok", e |-> NoError]
Ret(e) == [t |-> "error", e |-> e]
Thrown(e) == [t |-> "thrown", e |-> e]
\* a query answering {data: null, error: null}
Empty == [t |-> "empty", e |-> NoError]

ProbeResults == {Ok, Ret(FetchFailed), Ret(Unavailable), Thrown(FetchFailed)}
AuthResults == {Ok, Ret(BadCredentials), Thrown(FetchFailed), Thrown(ThrownValue)}
PlainResults == {Ok, Ret(BadCredentials), Thrown(FetchFailed)}
SelectResults == {Ok, Empty, Ret(RowMissing), Ret(FetchFailed)}
InsertResults == {Ok, Ret(FetchFailed)}

VARIABLES
    user,                 \* useState<User | null>: the profile's id, or NoUser
    loading,
    isResettingPassword,
    resetPasswordError,
    connectionStatus,
    lastError,            \* the message of the Error, or Null
    mounted,              \* the effect's `mounted`; the subscription lives as long
    storedFlag,           \* localStorage[REMEMBER_ME_KEY]: "true" or Null (absent)
    backendSession,       \* the identity of the backend's session, or NoUser
    initPc,               \* where initializeAuth is suspended
    initUid,              \* session.user.id held by initializeAuth
    initConnected,        \* initializeAuth's `isConnected`: "none" before the probe
                          \* answers and after initializeAuth has returned
    reactions,            \* the onAuthStateChange handler's invocations in flight
    calls,                \* the public actions' invocations in flight
    lastStep,             \* what the last step settled, if it settled anything
    bootNote,             \* "clean": bootstrap runs, no public action called so far;
                          \* "absent": bootstrap found no flag and ended, and no
                          \* event or call came since; "other": anything else
    started               \* events delivered and public actions called so far

auth == <<user, loading, connectionStatus, lastError>>
vars == <<user, loading, isResettingPassword, resetPasswordError, connectionStatus,
          lastError, mounted, storedFlag, backendSession, initPc, initUid,
          initConnected, reactions, calls, lastStep, bootNote, started>>

Idle == [pc |-> "idle"]
NoStep == [kind |-> "none"]

\* the hook's state but for lastError, with the persisted flag and the
\* backend's session
Snapshot ==
    [user |-> user, loading |-> loading, connectionStatus |-> connectionStatus,
     storedFlag |-> storedFlag, backendSession |-> backendSession,
     isResettingPassword |-> isResettingPassword, resetPasswordError |-> resetPasswordError]

NoSnapshot ==
    [user |-> NoUser, loading |-> FALSE, connectionStatus |-> "checking",
     storedFlag |-> Null, backendSession |-> NoUser,
     isResettingPassword |-> FALSE, resetPasswordError |-> Null]

\* The state right after the first render and the mount effect: initializeAuth
\* has run up to its first await (testConnection's getSession), the handler is
\* subscribed.
Init ==
    /\ user = NoUser
    /\ loading = TRUE
    /\ isResettingPassword = FALSE
    /\ resetPasswordError = Null
    /\ connectionStatus = "checking"
    /\ lastError = Null
    /\ mounted = TRUE
    /\ storedFlag \in {"true", Null}
    /\ backendSession \in {"u1", NoUser}   \* a session left by an earlier run, or none
    /\ initPc = "probe"
    /\ initUid = NoUser
    /\ initConnected = "none"
    /\ reactions = [i \in ReactionSlots |-> Idle]
    /\ calls = [i \in CallSlots |-> Idle]
    /\ lastStep = NoStep
    /\ bootNote = "clean"
    /\ started = 0

(***************************************************************************)
(* testConnection, lines 23-44: the continuation after getSession.         *)
(***************************************************************************)
testConnection(res) ==
    CASE res.t = "thrown" -> FALSE
      [] res.t = "error" ->
            ~(includes(res.e.message, "fetch") \/ includes(res.e.message, "network"))
      [] OTHER -> TRUE

\* a probe whose failure is not recorded
StatusAfterProbeStuck(res) == "connected"

StatusAfterProbe(res) == IF testConnection(res) THEN "connected" ELSE "disconnected"

(***************************************************************************)
(* fetchUserProfile, lines 75-98: the continuation after the select.       *)
(* Failure(res) is the raw failure, Classified(res) tells whether it goes  *)
(* through handleError, Caught(res) is the value thrown to the caller.     *)
(* The same shape serves the public actions' try/catch.                    *)
(***************************************************************************)
Classified(res) == res.t # "ok" /\ ~(res.t = "thrown" /\ res.e.isError)

Caught(res) == IF Classified(res) THEN handleError(res.e) ELSE res.e

\* the select's answer as fetchUserProfile sees it: an empty answer becomes
\* new Error('User profile data is empty')
SelectFailure(res) == IF res.t = "empty" THEN Ret(NewError(EmptyProfileMessage)) ELSE res

\* connectionStatus and lastError after a failure went through (or past) handleError
StatusAfter(res, status) == IF Classified(res) THEN StatusAfterHandle(res.e, status) ELSE status
LastErrorAfter(res, le) == IF Classified(res) THEN handleError(res.e).message ELSE le


\* a guard that never lets the write through
IfMountedNever(value, old) == old

\* `if (mounted) set(value)`: the guarded writes of initializeAuth
IfMounted(value, old) == IF mounted THEN value ELSE old

SignOutResults == {Ok, Ret(FetchFailed), Thrown(FetchFailed)}
SessionResults == {Ok, Ret(FetchFailed), Thrown(FetchFailed)}

(***************************************************************************)
(* initializeAuth, lines 103-165.                                          *)
(***************************************************************************)
\* what initializeAuth's end leaves in lastStep and bootNote
Booted(exit) == [kind |-> "booted", exit |-> exit]
NoteAfterBoot(flagAbsent) == IF bootNote = "clean" /\ flagAbsent THEN "absent" ELSE "other"

\* a bootstrap that goes on after a failed probe
InitGateOpen(isConnected) == "go"

\* `if (!isConnected) { ...; return; }`, lines 107-112
InitGate(isConnected) == IF isConnected THEN "go" ELSE "return"

\* a bootstrap that never finds the flag
RememberMeNever(flag) == FALSE

\* localStorage.getItem(REMEMBER_ME_KEY) === 'true', line 114
RememberMe(flag) == flag = "true"

\* lines 106-123: after `await testConnection()`; reads the persisted flag
InitProbe(res) ==
    /\ initPc = "probe"
    /\ connectionStatus' = StatusAfterProbe(res)
    /\ IF InitGate(testConnection(res)) = "return"
         THEN /\ loading' = IfMounted(FALSE, loading)
              /\ initPc' = "done"
              /\ initConnected' = "none"
              /\ lastStep' = Booted("probeFailed")
              /\ bootNote' = NoteAfterBoot(FALSE)
         ELSE /\ loading' = loading
              /\ initPc' = IF RememberMe(storedFlag) THEN "getSession" ELSE "signOut"
              /\ initConnected' = IF testConnection(res) THEN "up" ELSE "down"
              /\ lastStep' = NoStep
              /\ bootNote' = bootNote
    /\ UNCHANGED <<started, user, isResettingPassword, resetPasswordError, lastError, mounted,
                   storedFlag, backendSession, initUid, reactions, calls>>

\* lines 117-122, or the catch and finally of lines 154-164 when signOut throws
InitSignOut(res) ==
    /\ initPc = "signOut"
    /\ initPc' = "done"
    /\ initConnected' = "none"
    /\ IF res.t = "thrown"
         THEN /\ connectionStatus' = StatusAfterHandle(res.e, connectionStatus)
              /\ lastError' = handleError(res.e).message
              /\ storedFlag' = Null
              /\ lastStep' = Booted("noFlagThrew")
              /\ backendSession' = backendSession
         ELSE /\ backendSession' = IF res.t = "ok" THEN NoUser ELSE backendSession
              /\ lastStep' = Booted("noFlag")
              /\ UNCHANGED <<connectionStatus, lastError, storedFlag>>
    /\ user' = IfMounted(NoUser, user)
    /\ loading' = IfMounted(FALSE, loading)
    /\ bootNote' = NoteAfterBoot(TRUE)
    /\ UNCHANGED <<started, isResettingPassword, resetPasswordError, mounted, initUid, reactions,
                   calls>>

\* lines 125-136 and 148-153, or the catch of lines 154-159; finally 160-164
InitGetSession(res) ==
    /\ initPc = "getSession"
    /\ IF res.t = "ok" /\ backendSession # NoUser
         THEN /\ initPc' = "fetch"
              /\ initUid' = backendSession
              /\ initConnected' = initConnected
              /\ lastStep' = NoStep
              /\ UNCHANGED <<user, loading, connectionStatus, lastError,
                             storedFlag, bootNote>>
         ELSE /\ initPc' = "done"
              /\ initUid' = initUid
              /\ initConnected' = "none"
              /\ storedFlag' = Null
              /\ loading' = IfMounted(FALSE, loading)
              /\ connectionStatus' =
                    IF res.t = "ok" THEN connectionStatus
                    ELSE StatusAfterHandle(res.e, connectionStatus)
              /\ lastError' = IF res.t = "ok" THEN lastError ELSE handleError(res.e).message
              /\ user' = IF res.t = "error" THEN user ELSE IfMounted(NoUser, user)
              /\ lastStep' = Booted(CASE res.t = "ok" -> "noIdentity"
                                      [] res.t = "error" -> "sessionError"
                                      [] OTHER -> "sessionThrew")
              /\ bootNote' = NoteAfterBoot(FALSE)
    /\ UNCHANGED <<started, isResettingPassword, resetPasswordError, mounted, backendSession,
                   reactions, calls>>

\* lines 137-147 with fetchUserProfile's continuation; finally 160-164
InitFetch(res) ==
    /\ initPc = "fetch"
    /\ initPc' = "done"
    /\ initUid' = NoUser
    /\ initConnected' = "none"
    /\ LET f == SelectFailure(res) IN
         /\ connectionStatus' = StatusAfter(f, connectionStatus)
         /\ lastError' = LastErrorAfter(f, lastError)
         /\ user' = IfMounted(IF f.t = "ok" THEN initUid ELSE NoUser, user)
         /\ lastStep' = Booted(IF f.t = "ok" THEN "fetched" ELSE "fetchFailed")
    /\ loading' = IfMounted(FALSE, loading)
    /\ bootNote' = NoteAfterBoot(FALSE)
    /\ UNCHANGED <<started, isResettingPassword, resetPasswordError, mounted, storedFlag,
                   backendSession, reactions, calls>>

\* the effect's cleanup, lines 221-224
Unmount ==
    /\ mounted
    /\ mounted' = FALSE
    /\ lastStep' = NoStep
    /\ UNCHANGED <<started, user, loading, isResettingPassword, resetPasswordError, connectionStatus,
                   lastError, storedFlag, backendSession, initPc, initUid, initConnected,
                   reactions, calls, bootNote>>

(***************************************************************************)
(* The onAuthStateChange handler, lines 169-219.  The backend hands the    *)
(* handler its current session; SIGNED_OUT comes when it holds none.       *)
(* The handler returns at once when unmounted (line 170), and no event is  *)
(* dispatched after unsubscribe.                                           *)
(***************************************************************************)
\* SIGNED_IN stands for every event the handler does not name
SessionEvents == {"SIGNED_IN", "SIGNED_UP"}
Events == SessionEvents \cup {"SIGNED_OUT", "PASSWORD_RECOVERY"}

\* a handler without its PASSWORD_RECOVERY branch
BranchNoRecovery(event, session) ==
    CASE event = "SIGNED_OUT" -> "signedOut"
      [] session # NoUser -> "session"
      [] OTHER -> "noSession"

\* the branch the handler takes, lines 173, 179, 184 and 210
Branch(event, session) ==
    CASE event = "SIGNED_OUT" -> "signedOut"
      [] event = "PASSWORD_RECOVERY" -> "recovery"
      [] session # NoUser -> "session"
      [] OTHER -> "noSession"

\* Invocations in flight fill the slots from 1 up; which slot holds an
\* invocation has no meaning in the source.
FreeSlot(slots, i) == slots[i] = Idle /\ \A j \in DOMAIN slots : j < i => slots[j] # Idle
Remove(slots, i) ==
    [j \in DOMAIN slots |->
        IF j < i THEN slots[j]
        ELSE IF j + 1 \in DOMAIN slots THEN slots[j + 1] ELSE Idle]

NoteAfterEvent == IF initPc = "done" THEN "other" ELSE bootNote

\* lines 173-177
OnSignedOut ==
    /\ mounted
    /\ started < MaxStarted
    /\ started' = started + 1
    /\ backendSession = NoUser
    /\ Branch("SIGNED_OUT", backendSession) = "signedOut"
    /\ user' = NoUser
    /\ loading' = FALSE
    /\ bootNote' = NoteAfterEvent
    /\ lastStep' = NoStep
    /\ UNCHANGED <<isResettingPassword, resetPasswordError, connectionStatus, lastError,
                   mounted, storedFlag, backendSession, initPc, initUid, initConnected,
                   reactions, calls>>

\* What the step that handles PASSWORD_RECOVERY leaves in lastStep: the state
\* the event came in.
Recovered ==
    [kind |-> "recovered", before |-> Snapshot, lastErrorBefore |-> lastError,
     reactionsBefore |-> reactions]

\* lines 179-182; the event may carry a session
OnPasswordRecovery ==
    /\ mounted
    /\ started < MaxStarted
    /\ started' = started + 1
    /\ Branch("PASSWORD_RECOVERY", backendSession) = "recovery"
    /\ loading' = FALSE
    /\ bootNote' = NoteAfterEvent
    /\ lastStep' = Recovered
    /\ UNCHANGED <<user, isResettingPassword, resetPasswordError,
                   connectionStatus, lastError, mounted, storedFlag, backendSession,
                   initPc, initUid, initConnected, reactions, calls>>

\* lines 184-190: an event with a session, up to the first await
OnSession(event, i) ==
    /\ mounted
    /\ started < MaxStarted
    /\ started' = started + 1
    /\ Branch(event, backendSession) = "session"
    /\ FreeSlot(reactions, i)
    /\ loading' = TRUE
    /\ reactions' = [reactions EXCEPT ![i] =
          [pc |-> IF event = "SIGNED_UP" THEN "wait1000" ELSE "fetch1",
           event |-> event, uid |-> backendSession, fetches |-> 0,
           missing |-> FALSE, overtaken |-> FALSE]]
    /\ bootNote' = NoteAfterEvent
    /\ lastStep' = NoStep
    /\ UNCHANGED <<user, isResettingPassword, resetPasswordError,
                   connectionStatus, lastError, mounted, storedFlag, backendSession,
                   initPc, initUid, initConnected, calls>>

\* lines 210-213
OnNoSession(event) ==
    /\ mounted
    /\ started < MaxStarted
    /\ started' = started + 1
    /\ Branch(event, backendSession) = "noSession"
    /\ user' = NoUser
    /\ loading' = FALSE
    /\ bootNote' = NoteAfterEvent
    /\ lastStep' = NoStep
    /\ UNCHANGED <<isResettingPassword, resetPasswordError, connectionStatus, lastError,
                   mounted, storedFlag, backendSession, initPc, initUid, initConnected,
                   reactions, calls>>

\* line 189: the 1000ms timer fires, fetchUserProfile is called
ReactionDelay(i) ==
    /\ reactions[i].pc = "wait1000"
    /\ reactions' = [reactions EXCEPT ![i].pc = "fetch1"]
    /\ lastStep' = NoStep
    /\ UNCHANGED <<started, user, loading, isResettingPassword, resetPasswordError,
                   connectionStatus, lastError, mounted, storedFlag, backendSession,
                   initPc, initUid, initConnected, calls, bootNote>>

\* a handler that never retries
RetryNever(error) == FALSE

\* line 196: the test that decides the retry
Retry(error) ==
    includes(error.message, "User profile not found") \/ includes(error.message, "0 rows")

Reacted(r, fetches, missing, found) ==
    [kind |-> "reacted", event |-> r.event, uid |-> r.uid, fetches |-> fetches,
     missing |-> missing, found |-> found, overtaken |-> r.overtaken]

\* lines 192-197 and 205-209: the first fetch answers
ReactionFetch(i, res) ==
    /\ reactions[i].pc = "fetch1"
    /\ LET r == reactions[i]
           f == SelectFailure(res)
           again == f.t # "ok" /\ Retry(Caught(f))
       IN
         /\ connectionStatus' = StatusAfter(f, connectionStatus)
         /\ lastError' = LastErrorAfter(f, lastError)
         /\ IF again
              THEN /\ reactions' = [reactions EXCEPT ![i] =
                         [r EXCEPT !.pc = "wait2000", !.fetches = 1,
                                   !.missing = (res = Ret(RowMissing))]]
                   /\ lastStep' = NoStep
                   /\ UNCHANGED <<user, loading>>
              ELSE /\ reactions' = Remove(reactions, i)
                   /\ user' = IF f.t = "ok" THEN r.uid ELSE NoUser
                   /\ loading' = FALSE
                   /\ lastStep' = Reacted(r, 1, res = Ret(RowMissing), f.t = "ok")
    /\ UNCHANGED <<started, isResettingPassword, resetPasswordError, mounted, storedFlag,
                   backendSession, initPc, initUid, initConnected, calls, bootNote>>

\* line 197: the 2000ms timer fires, fetchUserProfile is called again
ReactionRetryDelay(i) ==
    /\ reactions[i].pc = "wait2000"
    /\ reactions' = [reactions EXCEPT ![i].pc = "fetch2"]
    /\ lastStep' = NoStep
    /\ UNCHANGED <<started, user, loading, isResettingPassword, resetPasswordError,
                   connectionStatus, lastError, mounted, storedFlag, backendSession,
                   initPc, initUid, initConnected, calls, bootNote>>

\* lines 198-204 and 209: the second fetch answers
ReactionRetry(i, res) ==
    /\ reactions[i].pc = "fetch2"
    /\ LET r == reactions[i]
           f == SelectFailure(res)
       IN
         /\ connectionStatus' = StatusAfter(f, connectionStatus)
         /\ lastError' = LastErrorAfter(f, lastError)
         /\ reactions' = Remove(reactions, i)
         /\ user' = IF f.t = "ok" THEN r.uid ELSE NoUser
         /\ loading' = FALSE
         /\ lastStep' = Reacted(r, 2, r.missing, f.t = "ok")
    /\ UNCHANGED <<started, isResettingPassword, resetPasswordError, mounted, storedFlag,
                   backendSession, initPc, initUid, initConnected, calls, bootNote>>


(***************************************************************************)
(* The public actions, lines 227-402.  An invocation holds where it is     *)
(* suspended and what its own probe returned.                              *)
(***************************************************************************)
SignUpResults == AuthResults \cup {[t |-> "nouser", e |-> NoError]}

\* probe: what this invocation's testConnection returned ("none": not yet, or
\* the action runs none)
Call(op, pc) == [op |-> op, pc |-> pc, probe |-> "none"]

\* the actions that run testConnection before their backend call
Gated == {"signUp", "signIn", "resetPassword"}

\* What the step that calls a public action leaves in lastStep: the state the
\* action was called in.
Called(i, op) ==
    [kind |-> "called", slot |-> i, op |-> op,
     wasDisconnected |-> connectionStatus = "disconnected",
     wasSignedOut |-> user = NoUser /\ backendSession = NoUser,
     second |-> lastStep.kind = "settled" /\ lastStep.op = "signOut"
                   /\ lastStep.result = "resolved",
     before |-> Snapshot]

\* What the step that settles the invocation in slot i leaves in lastStep.
\* `flagBefore`: the persisted flag before this step; `rememberMe`: the
\* argument of a signUp or signIn that resolved;
\* `direct`: the invocation was called in the step before, nothing ran between;
\* `second`: and that call came right after a signOut resolved; `before`: the
\* state it was called in.
Settled(i, result, error, probe, called) ==
    LET direct == lastStep.kind = "called" /\ lastStep.slot = i IN
    [kind |-> "settled", op |-> calls[i].op, result |-> result, error |-> error,
     probe |-> probe, called |-> called, direct |-> direct,
     wasSignedOut |-> direct /\ lastStep.wasSignedOut,
     second |-> direct /\ lastStep.second,
     before |-> IF direct THEN lastStep.before ELSE NoSnapshot,
     flagBefore |-> storedFlag,
     rememberMe |-> FALSE]

\* a gate that lets a failed probe through
AfterProbeIgnored(isConnected) == "call"

\* `if (!isConnected) throw ...`, lines 240-242, 301-303, 360-362
AfterProbe(isConnected) == IF isConnected THEN "call" ELSE "throw"

\* a catch block without its setLoading(false)
LoadingAfterCatchKept(value) == value

\* setLoading(false) of the catch blocks, lines 286, 322, 344, 396
LoadingAfterCatch(value) == FALSE

\* localStorage.removeItem(REMEMBER_ME_KEY) of signOut, line 340
FlagAfterSignOut(flag) == Null

\* a catch block that forgets the user
FlagAfterCatchCleared(flag) == Null

\* the catch blocks write nothing to localStorage, lines 285-291, 321-327,
\* 343-349, 373-378, 395-401
FlagAfterCatch(flag) == flag

\* a signOut that forgets to clear the user
UserAfterSignOutKept(value) == value

\* setUser(null) of signOut, line 341
UserAfterSignOut(value) == NoUser

\* a sign-in that always remembers
FlagAfterSignInAlways(rememberMe) == "true"

\* lines 278-282 and 314-318
FlagAfterSignIn(rememberMe) == IF rememberMe THEN "true" ELSE Null

\* The catch block of signUp, signIn, signOut and updatePassword (lines 285-291
\* and its copies) and of resetPassword (lines 373-378), for the failure f of
\* the try block; the invocation in slot i rejects.
Reject(i, f, status, probe, called) ==
    LET c == calls[i] IN
    /\ connectionStatus' = StatusAfter(f, status)
    /\ lastError' = LastErrorAfter(f, lastError)
    /\ IF c.op = "resetPassword"
         THEN /\ isResettingPassword' = FALSE
              /\ resetPasswordError' = Caught(f).message
              /\ loading' = loading
         ELSE /\ loading' = LoadingAfterCatch(loading)
              /\ UNCHANGED <<isResettingPassword, resetPasswordError>>
    /\ storedFlag' = FlagAfterCatch(storedFlag)
    /\ calls' = Remove(calls, i)
    /\ lastStep' = Settled(i, "rejected", Caught(f), probe, called)

\* lines 234-239, up to testConnection's getSession
SignUp(i) ==
    /\ mounted
    /\ started < MaxStarted
    /\ started' = started + 1
    /\ FreeSlot(calls, i)
    /\ loading' = TRUE
    /\ lastError' = Null
    /\ connectionStatus' = "checking"
    /\ calls' = [calls EXCEPT ![i] = Call("signUp", "probe")]
    /\ bootNote' = "other"
    /\ lastStep' = Called(i, "signUp")
    /\ UNCHANGED <<user, isResettingPassword, resetPasswordError, mounted,
                   storedFlag, backendSession, initPc, initUid, initConnected, reactions>>

\* lines 295-300
SignIn(i) ==
    /\ mounted
    /\ started < MaxStarted
    /\ started' = started + 1
    /\ FreeSlot(calls, i)
    /\ loading' = TRUE
    /\ lastError' = Null
    /\ connectionStatus' = "checking"
    /\ calls' = [calls EXCEPT ![i] = Call("signIn", "probe")]
    /\ bootNote' = "other"
    /\ lastStep' = Called(i, "signIn")
    /\ UNCHANGED <<user, isResettingPassword, resetPasswordError, mounted,
                   storedFlag, backendSession, initPc, initUid, initConnected, reactions>>

\* lines 331-335
SignOut(i) ==
    /\ mounted
    /\ started < MaxStarted
    /\ started' = started + 1
    /\ FreeSlot(calls, i)
    /\ loading' = TRUE
    /\ lastError' = Null
    /\ calls' = [calls EXCEPT ![i] = Call("signOut", "call")]
    /\ bootNote' = "other"
    /\ lastStep' = Called(i, "signOut")
    /\ UNCHANGED <<user, isResettingPassword, resetPasswordError,
                   connectionStatus, mounted, storedFlag, backendSession, initPc, initUid, initConnected,
                   reactions>>

\* lines 353-359
ResetPassword(i) ==
    /\ mounted
    /\ started < MaxStarted
    /\ started' = started + 1
    /\ FreeSlot(calls, i)
    /\ isResettingPassword' = TRUE
    /\ resetPasswordError' = Null
    /\ lastError' = Null
    /\ connectionStatus' = "checking"
    /\ calls' = [calls EXCEPT ![i] = Call("resetPassword", "probe")]
    /\ bootNote' = "other"
    /\ lastStep' = Called(i, "resetPassword")
    /\ UNCHANGED <<user, loading, mounted, storedFlag, backendSession, initPc,
                   initUid, initConnected, reactions>>

\* lines 382-388
UpdatePassword(i) ==
    /\ mounted
    /\ started < MaxStarted
    /\ started' = started + 1
    /\ FreeSlot(calls, i)
    /\ loading' = TRUE
    /\ lastError' = Null
    /\ calls' = [calls EXCEPT ![i] = Call("updatePassword", "call")]
    /\ bootNote' = "other"
    /\ lastStep' = Called(i, "updatePassword")
    /\ UNCHANGED <<user, isResettingPassword, resetPasswordError,
                   connectionStatus, mounted, storedFlag, backendSession, initPc, initUid, initConnected,
                   reactions>>

\* After `await testConnection()` in signUp, signIn or resetPassword: the
\* backend call is issued, or the unreachable error is thrown and caught.
Probed(i, res) ==
    /\ calls[i].pc = "probe"
    /\ IF AfterProbe(testConnection(res)) = "call"
         THEN /\ connectionStatus' = StatusAfterProbe(res)
              /\ calls' = [calls EXCEPT ![i].pc = "call",
                                         ![i].probe = IF testConnection(res) THEN "up" ELSE "down"]
              /\ lastStep' = NoStep
              /\ UNCHANGED <<loading, lastError, isResettingPassword, resetPasswordError,
                             storedFlag>>
         ELSE Reject(i, Ret(NewError(UnreachableMessage)), StatusAfterProbe(res),
                     IF testConnection(res) THEN "up" ELSE "down", FALSE)
    /\ UNCHANGED <<started, user, mounted, backendSession, initPc, initUid, initConnected,
                   reactions, bootNote>>

\* lines 239-250
SignUpProbe(i, res) == calls[i].pc = "probe" /\ calls[i].op = "signUp" /\ Probed(i, res)

\* lines 300-308
SignInProbe(i, res) == calls[i].pc = "probe" /\ calls[i].op = "signIn" /\ Probed(i, res)

\* lines 359-366
ResetPasswordProbe(i, res) == calls[i].pc = "probe" /\ calls[i].op = "resetPassword" /\ Probed(i, res)

\* lines 252-261: supabase.auth.signUp answers, with data.user.id = uid
SignUpCall(i, res, uid) ==
    /\ calls[i].pc = "call"
    /\ calls[i].op = "signUp"
    /\ IF res.t = "ok"
         THEN /\ calls' = [calls EXCEPT ![i].pc = "delay"]
              /\ backendSession' = uid
              /\ lastStep' = NoStep
              /\ UNCHANGED <<loading, lastError, connectionStatus, isResettingPassword,
                             resetPasswordError, storedFlag>>
         ELSE /\ Reject(i, IF res.t = "nouser" THEN Ret(NewError(NoUserDataMessage)) ELSE res,
                        connectionStatus, calls[i].probe, TRUE)
              /\ backendSession' = backendSession
    /\ UNCHANGED <<started, user, mounted, initPc, initUid, initConnected,
                   reactions, bootNote>>

\* lines 261-272: the 500ms timer fires, the profile row is sent
SignUpDelay(i) ==
    /\ calls[i].pc = "delay"
    /\ calls[i].op = "signUp"
    /\ calls' = [calls EXCEPT ![i].pc = "insert"]
    /\ lastStep' = NoStep
    /\ UNCHANGED <<started, user, loading, isResettingPassword, resetPasswordError,
                   connectionStatus, lastError, mounted, storedFlag, backendSession,
                   initPc, initUid, initConnected, reactions, bootNote>>

\* lines 274-284: the insert answers.  rememberMe is the invocation's argument,
\* which no step reads before this one.
SignUpInsert(i, res, rememberMe) ==
    /\ calls[i].pc = "insert"
    /\ calls[i].op = "signUp"
    /\ IF res.t = "ok"
         THEN /\ storedFlag' = FlagAfterSignIn(rememberMe)
              /\ loading' = FALSE
              /\ calls' = Remove(calls, i)
              /\ lastStep' = [Settled(i, "resolved", NoError, calls[i].probe, TRUE)
                                 EXCEPT !.rememberMe = rememberMe]
              /\ UNCHANGED <<lastError, connectionStatus, isResettingPassword,
                             resetPasswordError>>
         ELSE Reject(i, res, connectionStatus, calls[i].probe, TRUE)
    /\ UNCHANGED <<started, user, mounted, backendSession, initPc, initUid, initConnected,
                   reactions, bootNote>>

\* lines 310-320: signInWithPassword answers; the session is uid's.
\* rememberMe is the invocation's argument, which no step reads before this one.
SignInCall(i, res, uid, rememberMe) ==
    /\ calls[i].pc = "call"
    /\ calls[i].op = "signIn"
    /\ IF res.t = "ok"
         THEN /\ backendSession' = uid
              /\ storedFlag' = FlagAfterSignIn(rememberMe)
              /\ loading' = FALSE
              /\ calls' = Remove(calls, i)
              /\ lastStep' = [Settled(i, "resolved", NoError, calls[i].probe, TRUE)
                                 EXCEPT !.rememberMe = rememberMe]
              /\ UNCHANGED <<lastError, connectionStatus, isResettingPassword,
                             resetPasswordError>>
         ELSE /\ Reject(i, res, connectionStatus, calls[i].probe, TRUE)
              /\ UNCHANGED backendSession
    /\ UNCHANGED <<started, user, mounted, initPc, initUid, initConnected, reactions, bootNote>>

\* the reactions in flight when a signOut sets user to null
Overtaken == [j \in ReactionSlots |->
                 IF reactions[j] = Idle THEN Idle ELSE [reactions[j] EXCEPT !.overtaken = TRUE]]

\* lines 336-342: supabase.auth.signOut answers
SignOutCall(i, res) ==
    /\ calls[i].pc = "call"
    /\ calls[i].op = "signOut"
    /\ IF res.t = "ok"
         THEN /\ backendSession' = NoUser
              /\ storedFlag' = FlagAfterSignOut(storedFlag)
              /\ user' = UserAfterSignOut(user)
              /\ loading' = FALSE
              /\ reactions' = Overtaken
              /\ calls' = Remove(calls, i)
              /\ lastStep' = Settled(i, "resolved", NoError, calls[i].probe, TRUE)
              /\ UNCHANGED <<lastError, connectionStatus, isResettingPassword,
                             resetPasswordError>>
         ELSE /\ Reject(i, res, connectionStatus, calls[i].probe, TRUE)
              /\ UNCHANGED <<backendSession, user, reactions>>
    /\ UNCHANGED <<started, mounted, initPc, initUid, initConnected, bootNote>>

\* lines 368-372: resetPasswordForEmail answers
ResetPasswordCall(i, res) ==
    /\ calls[i].pc = "call"
    /\ calls[i].op = "resetPassword"
    /\ IF res.t = "ok"
         THEN /\ isResettingPassword' = FALSE
              /\ calls' = Remove(calls, i)
              /\ lastStep' = Settled(i, "resolved", NoError, calls[i].probe, TRUE)
              /\ UNCHANGED <<loading, lastError, connectionStatus, resetPasswordError,
                             storedFlag>>
         ELSE Reject(i, res, connectionStatus, calls[i].probe, TRUE)
    /\ UNCHANGED <<started, user, mounted, backendSession, initPc, initUid, initConnected,
                   reactions, bootNote>>

\* lines 390-394: updateUser answers
UpdatePasswordCall(i, res) ==
    /\ calls[i].pc = "call"
    /\ calls[i].op = "updatePassword"
    /\ IF res.t = "ok"
         THEN /\ loading' = FALSE
              /\ calls' = Remove(calls, i)
              /\ lastStep' = Settled(i, "resolved", NoError, calls[i].probe, TRUE)
              /\ UNCHANGED <<lastError, connectionStatus, isResettingPassword,
                             resetPasswordError, storedFlag>>
         ELSE Reject(i, res, connectionStatus, calls[i].probe, TRUE)
    /\ UNCHANGED <<started, user, mounted, backendSession, initPc, initUid, initConnected,
                   reactions, bootNote>>

Bootstrap ==
    \/ \E res \in ProbeResults : InitProbe(res)
    \/ \E res \in SignOutResults : InitSignOut(res)
    \/ \E res \in SessionResults : InitGetSession(res)
    \/ \E res \in SelectResults : InitFetch(res)

Reactor ==
    \/ \E i \in ReactionSlots : ReactionDelay(i)
    \/ \E i \in ReactionSlots, res \in SelectResults : ReactionFetch(i, res)
    \/ \E i \in ReactionSlots : ReactionRetryDelay(i)
    \/ \E i \in ReactionSlots, res \in SelectResults : ReactionRetry(i, res)

Next ==
    \/ \E res \in ProbeResults : InitProbe(res)
    \/ \E res \in SignOutResults : InitSignOut(res)
    \/ \E res \in SessionResults : InitGetSession(res)
    \/ \E res \in SelectResults : InitFetch(res)
    \/ Unmount
    \/ OnSignedOut
    \/ OnPasswordRecovery
    \/ \E event \in Events, i \in ReactionSlots : OnSession(event, i)
    \/ \E event \in Events : OnNoSession(event)
    \/ \E i \in ReactionSlots : ReactionDelay(i)
    \/ \E i \in ReactionSlots, res \in SelectResults : ReactionFetch(i, res)
    \/ \E i \in ReactionSlots : ReactionRetryDelay(i)
    \/ \E i \in ReactionSlots, res \in SelectResults : ReactionRetry(i, res)
    \/ \E i \in CallSlots : SignUp(i)
    \/ \E i \in CallSlots : SignIn(i)
    \/ \E i \in CallSlots : SignOut(i)
    \/ \E i \in CallSlots : ResetPassword(i)
    \/ \E i \in CallSlots : UpdatePassword(i)
    \/ \E i \in CallSlots, res \in ProbeResults : SignUpProbe(i, res)
    \/ \E i \in CallSlots, res \in ProbeResults : SignInProbe(i, res)
    \/ \E i \in CallSlots, res \in ProbeResults : ResetPasswordProbe(i, res)
    \/ \E i \in CallSlots, res \in SignUpResults, uid \in Ids : SignUpCall(i, res, uid)
    \/ \E i \in CallSlots : SignUpDelay(i)
    \/ \E i \in CallSlots, res \in InsertResults, rememberMe \in BOOLEAN :
          SignUpInsert(i, res, rememberMe)
    \/ \E i \in CallSlots, res \in AuthResults, uid \in Ids, rememberMe \in BOOLEAN :
          SignInCall(i, res, uid, rememberMe)
    \/ \E i \in CallSlots, res \in SignOutResults : SignOutCall(i, res)
    \/ \E i \in CallSlots, res \in PlainResults : ResetPasswordCall(i, res)
    \/ \E i \in CallSlots, res \in PlainResults : UpdatePasswordCall(i, res)

Spec == Init /\ [][Next]_vars


(***************************************************************************)
(* Properties.                                                             *)
(***************************************************************************)
IsSettled == lastStep.kind = "settled"
IsReacted == lastStep.kind = "reacted"
NoReaction == \A i \in ReactionSlots : reactions[i] = Idle

\* C1 (as claimed): once the cleanup has run, no continuation of
\* initializeAuth or of the event handler changes user, loading,
\* connectionStatus or lastError.
C1_NoWriteAfterUnmount ==
    [][(~mounted /\ (Bootstrap \/ Reactor)) => UNCHANGED auth]_vars

\* C2 (as claimed): when any of the five public actions settles, loading is false.
C2_LoadingFalseWhenSettled == IsSettled => loading = FALSE

\* C2 (amended): when signUp, signIn, signOut or updatePassword settles,
\* loading is false; when resetPassword settles, isResettingPassword is false.
C2_FlagDownWhenSettled ==
    IsSettled =>
        IF lastStep.op = "resetPassword" THEN isResettingPassword = FALSE ELSE loading = FALSE

\* a signIn is rejected while initializeAuth is still in flight
C2_Witness ==
    IsSettled /\ lastStep.op = "signIn" /\ lastStep.result = "rejected" /\ initPc # "done"

\* C3 (as claimed): initializeAuth found no persisted flag and has ended, every
\* reaction to an event delivered before or during it has ended too, and
\* nothing was called or delivered since; the backend holds no session: user
\* is null and connectionStatus is connected or disconnected.
C3_SignedOutWithoutFlag ==
    (bootNote = "absent" /\ mounted /\ NoReaction /\ backendSession = NoUser) =>
        user = NoUser /\ connectionStatus \in {"connected", "disconnected"}

\* C4 (as claimed): signUp, signIn or resetPassword called while
\* connectionStatus is disconnected does not issue its backend call.
C4_DisconnectedBlocksCall ==
    [][(lastStep.kind = "called" /\ lastStep.op \in Gated /\ lastStep.wasDisconnected)
          => calls'[lastStep.slot].pc # "call"]_vars

\* C4 (amended): an invocation of signUp, signIn or resetPassword whose own
\* probe returned false never issues its backend call and rejects with the
\* classified unreachable error.
C4_FailedProbeBlocksCall ==
    /\ \A i \in CallSlots : calls[i] # Idle => calls[i].probe # "down"
    /\ (IsSettled /\ lastStep.probe = "down") =>
          /\ lastStep.op \in Gated
          /\ ~lastStep.called
          /\ lastStep.result = "rejected"
          /\ lastStep.error.message = UnreachableMessage
          /\ lastStep.error.passes = 1

\* signIn, called while disconnected, is rejected by its failed probe
C4_Witness ==
    IsSettled /\ lastStep.op = "signIn" /\ lastStep.probe = "down" /\ ~lastStep.called

\* C5 (as claimed): when signUp's probe returns false, signUp rejects with the
\* NetworkError message and connectionStatus is disconnected.
C5_ProbeFailureIsNetworkError ==
    (IsSettled /\ lastStep.op = "signUp" /\ lastStep.probe = "down") =>
        lastStep.error.message = NetworkMessage /\ connectionStatus = "disconnected"

\* C5 (amended): when signUp's probe returns false, signUp rejects with the
\* message "Unable to connect to authentication service", which handleError
\* passes through as kind Unknown, lastError holds it, and connectionStatus
\* is disconnected.
C5_ProbeFailureIsUnreachable ==
    (IsSettled /\ lastStep.op = "signUp" /\ lastStep.probe = "down") =>
        /\ lastStep.result = "rejected"
        /\ lastStep.error.message = UnreachableMessage
        /\ Kind(lastStep.error) = "Unknown"
        /\ lastError = UnreachableMessage
        /\ connectionStatus = "disconnected"

C5_Witness == IsSettled /\ lastStep.op = "signUp" /\ lastStep.probe = "down"

\* C6 (as claimed): the error a public action rejects with went through
\* handleError exactly once.
C6_ClassifiedOnce == (IsSettled /\ lastStep.result = "rejected") => lastStep.error.passes = 1

\* C7 (as claimed): a reaction that was in flight when signOut set user to
\* null does not leave user set to its own identity's profile.
C7_NoStaleUser == (IsReacted /\ lastStep.overtaken) => user # lastStep.uid

\* C8 (as claimed): signOut called when signed out (user null, no backend
\* session) ends, whatever the backend answers, with the flag cleared and
\* user null.
C8_SignOutAlwaysClears ==
    (IsSettled /\ lastStep.op = "signOut" /\ lastStep.wasSignedOut) =>
        storedFlag = Null /\ user = NoUser

\* What signOut does keep (C8's failing case left out): a signOut whose backend
\* call returns no error ends with the flag cleared, user null and no backend
\* session; a second signOut right after it that resolves too leaves user,
\* loading, connectionStatus, the reset-password fields, the flag and the
\* backend session as the first left them, and lastError null.
SignOutIdempotentWhenResolved ==
    (IsSettled /\ lastStep.op = "signOut" /\ lastStep.result = "resolved") =>
        /\ storedFlag = Null
        /\ user = NoUser
        /\ backendSession = NoUser
        /\ lastStep.second => (Snapshot = lastStep.before /\ lastError = Null)

\* the second of two consecutive signOuts has resolved
SecondSignOutResolved ==
    IsSettled /\ lastStep.op = "signOut" /\ lastStep.result = "resolved"
    /\ lastStep.second /\ lastStep.wasSignedOut

C10_RetryOnlyAfterSignUp ==
    /\ \A i \in ReactionSlots :
          (reactions[i] # Idle /\ reactions[i].fetches > 0) => reactions[i].event = "SIGNED_UP"
    /\ (IsReacted /\ lastStep.fetches = 2) => lastStep.event = "SIGNED_UP"

\* the operations that set loading to true when they start
LoadingOps == {"signUp", "signIn", "signOut", "updatePassword"}

\* initializeAuth, a reaction to an event with a session, or an action that
\* toggles loading is suspended at an await
InFlight ==
    \/ initPc # "done"
    \/ ~NoReaction
    \/ \E i \in CallSlots : calls[i] # Idle /\ calls[i].op \in LoadingOps

\* C11 (as claimed): while the component is mounted and a loading-toggling
\* operation (initializeAuth, signUp, signIn, signOut, updatePassword or a
\* reaction to an event with a session) is in flight, loading is true.
C11_LoadingWhileInFlight == (mounted /\ InFlight) => loading = TRUE

\* the invocation's backend call has been issued
PastProbe(c) == c # Idle /\ c.pc # "probe"

\* C12 (as claimed): no public action issues its backend call, and
\* initializeAuth does not look the session up, before a probe of its own has
\* returned.
C12_ProbeBeforeEveryCall ==
    /\ \A i \in CallSlots : PastProbe(calls[i]) => calls[i].probe # "none"
    /\ initPc = "getSession" => initConnected # "none"

\* C12 (amended): signUp, signIn and resetPassword issue their backend call
\* only after their own probe returned true, and initializeAuth reaches its
\* sign-out, session lookup and profile fetch only after its probe returned
\* true; signOut and updatePassword run no probe before their backend call.
C12_ProbeBeforeGatedCall ==
    /\ \A i \in CallSlots :
          PastProbe(calls[i]) =>
             IF calls[i].op \in Gated THEN calls[i].probe = "up"
             ELSE calls[i].probe = "none" /\ calls[i].pc = "call"
    /\ initPc \in {"signOut", "getSession", "fetch"} => initConnected = "up"
    /\ initPc = "probe" => initConnected = "none"

\* signIn's backend call and initializeAuth's session lookup are both in flight
C12_Witness ==
    /\ initPc = "getSession"
    /\ \E i \in CallSlots : PastProbe(calls[i]) /\ calls[i].op = "signIn"

\* C13: an invocation of signUp, signIn or resetPassword whose probe returned
\* false rejects in the step the probe answers: its backend call is never
\* issued, no invocation with a failed probe waits for signUp's 500ms timer
\* or its insert, and neither the step that called the action nor the step
\* that rejects it changes the persisted flag.
C13_FailedProbeNoEffect ==
    /\ \A i \in CallSlots :
          (calls[i] # Idle /\ calls[i].pc \in {"call", "delay", "insert"}) =>
             calls[i].probe # "down"
    /\ (lastStep.kind = "called" /\ lastStep.op \in Gated) =>
          /\ calls[lastStep.slot].pc = "probe"
          /\ storedFlag = lastStep.before.storedFlag
    /\ (IsSettled /\ lastStep.probe = "down") =>
          /\ lastStep.result = "rejected"
          /\ ~lastStep.called
          /\ storedFlag = lastStep.flagBefore

\* resetPassword's probe fails while the flag is set: the flag is kept
C13_Witness ==
    /\ IsSettled /\ lastStep.op = "resetPassword" /\ lastStep.probe = "down"
    /\ lastStep.direct /\ lastStep.before.storedFlag = "true" /\ storedFlag = "true"

\* Every backend call initializeAuth awaits eventually returns or throws.
FairSpec == Spec /\ WF_vars(Bootstrap)

\* how initializeAuth can end: each is a return, the catch block of lines
\* 154-159 rethrows nothing
BootExits ==
    {"probeFailed", "noFlag", "noFlagThrew", "noIdentity", "sessionError", "sessionThrew",
     "fetched", "fetchFailed"}

\* initializeAuth has just returned; while mounted, it left loading false
BootedLoadingFalse ==
    /\ initPc = "done"
    /\ lastStep.kind = "booted"
    /\ lastStep.exit \in BootExits
    /\ mounted => loading = FALSE

\* C14: when every backend call answers, initializeAuth ends, by a return
\* and not by a throw, and if the component is still mounted its last write
\* leaves loading false.
C14_BootstrapEnds == <>BootedLoadingFalse

\* initializeAuth ended in its catch block: the sign-out threw
C14_Witness ==
    BootedLoadingFalse /\ mounted /\ lastStep.exit = "noFlagThrew" /\ lastError = NetworkMessage

\* initializeAuth has just returned, the component is mounted, and since the
\* mount no event was delivered and no public action was called
BootedAlone == lastStep.kind = "booted" /\ started = 0 /\ mounted

\* how initializeAuth ends when the backend fails it: the probe returned false,
\* the session lookup failed, or the profile row could not be read
FailedExits == {"probeFailed", "sessionError", "sessionThrew", "fetchFailed"}

\* C15: initializeAuth ran alone.  With the persisted flag "true", a backend
\* session for an identity and no backend failure, it ends having fetched the
\* profile; and when it ends so, user is the profile of the session's
\* identity, loading is false and the persisted flag is still "true".
C15_SessionRestored ==
    /\ (BootedAlone /\ storedFlag = "true" /\ backendSession # NoUser
          /\ lastStep.exit \notin FailedExits) => lastStep.exit = "fetched"
    /\ (BootedAlone /\ lastStep.exit = "fetched") =>
          /\ backendSession # NoUser
          /\ user = backendSession
          /\ loading = FALSE
          /\ storedFlag = "true"
    /\ (started = 0 /\ initPc = "fetch") => initUid = backendSession /\ storedFlag = "true"

\* Scenario B: the session of u1 is restored
C15_Witness ==
    BootedAlone /\ lastStep.exit = "fetched" /\ user = "u1" /\ connectionStatus = "connected"

\* C16 (as claimed): when a public action's backend call has just completed
\* without a failure, connectionStatus is not disconnected.
C16_SuccessClearsDisconnected ==
    (IsSettled /\ lastStep.result = "resolved" /\ lastStep.called) =>
        connectionStatus # "disconnected"

\* C17: the step that handles PASSWORD_RECOVERY leaves loading false and
\* leaves user, connectionStatus, lastError, the reset-password fields, the
\* persisted flag and the backend session as they were; it starts no reaction,
\* and no reaction in flight is one to PASSWORD_RECOVERY, so no profile is
\* fetched for it, with or without a session.
C17_RecoveryOnlyLoading ==
    /\ lastStep.kind = "recovered" =>
          /\ loading = FALSE
          /\ Snapshot = [lastStep.before EXCEPT !.loading = FALSE]
          /\ lastError = lastStep.lastErrorBefore
          /\ reactions = lastStep.reactionsBefore
    /\ \A i \in ReactionSlots :
          reactions[i] # Idle => reactions[i].event # "PASSWORD_RECOVERY"

\* the event came with a session, a user set and loading true
C17_Witness ==
    /\ lastStep.kind = "recovered"
    /\ backendSession # NoUser
    /\ user # NoUser
    /\ lastStep.before.loading = TRUE

(***************************************************************************)
(* handleError on its own: any raw error, classified in any state of       *)
(* connectionStatus and lastError.                                         *)
(***************************************************************************)
RawMessages ==
    {Null, "Failed to fetch", "A network error occurred", "Invalid login credentials",
     "Email not confirmed", "User already registered",
     "new row violates row-level security policy", "The result contains 0 rows",
     "Service unavailable", UnreachableMessage}
RawCodes ==
    {Null, "invalid_credentials", "email_not_confirmed", "user_already_exists", "42501",
     "PGRST116"}
RawStatuses == {0, 400, 500, 502, 503, 504}
RawErrors ==
    {RawError(m, c, s, TRUE) : m \in RawMessages, c \in RawCodes, s \in RawStatuses}

ClassifierInit ==
    /\ user = NoUser
    /\ loading = FALSE
    /\ isResettingPassword = FALSE
    /\ resetPasswordError = Null
    /\ connectionStatus \in {"checking", "connected", "disconnected"}
    /\ lastError \in {Null, NetworkMessage}
    /\ mounted = TRUE
    /\ storedFlag = Null
    /\ backendSession = NoUser
    /\ initPc = "done"
    /\ initUid = NoUser
    /\ initConnected = "none"
    /\ reactions = [i \in ReactionSlots |-> Idle]
    /\ calls = [i \in CallSlots |-> Idle]
    /\ lastStep = NoStep
    /\ bootNote = "other"
    /\ started = 0

\* handleError(error, operation), lines 46-73
Classify(error) ==
    /\ connectionStatus' = StatusAfterHandle(error, connectionStatus)
    /\ lastError' = handleError(error).message
    /\ lastStep' = [kind |-> "classified", error |-> error,
                    statusBefore |-> connectionStatus, result |-> handleError(error)]
    /\ UNCHANGED <<user, loading, isResettingPassword, resetPasswordError, mounted,
                   storedFlag, backendSession, initPc, initUid, initConnected,
                   reactions, calls, bootNote, started>>

ClassifierNext == \E error \in RawErrors : Classify(error)

ClassifierSpec == ClassifierInit /\ [][ClassifierNext]_vars

\* the user message of each kind that marks the connection lost
LostMessages == {NetworkMessage, ServerMessage}

\* C18: handleError leaves in lastError the error it returns; when the first
\* matching branch is the network one (message with 'fetch' or 'network') or
\* the server one (status 500, 502, 503 or 504 and no earlier branch),
\* connectionStatus is disconnected afterwards; for every other error it is
\* what it was before.
C18_ClassifierEffects ==
    lastStep.kind = "classified" =>
        LET e == lastStep.error
            network == includes(e.message, "fetch") \/ includes(e.message, "network")
            named == \/ includes(e.message, "Invalid login credentials")
                     \/ includes(e.message, "Email not confirmed")
                     \/ includes(e.message, "User already registered")
                     \/ includes(e.message, "row-level security policy")
                     \/ e.code \in {"invalid_credentials", "email_not_confirmed",
                                    "user_already_exists", "42501"}
            server == ~network /\ ~named /\ e.status \in {500, 502, 503, 504}
        IN
          /\ lastError = lastStep.result.message
          /\ lastStep.result.passes = 1
          /\ (network \/ server) <=> lastStep.result.message \in LostMessages
          /\ connectionStatus =
                IF network \/ server THEN "disconnected" ELSE lastStep.statusBefore

\* a 503 with the code of bad credentials: the earlier branch wins and the
\* status is left connected
C18_Witness ==
    /\ lastStep.kind = "classified"
    /\ lastStep.error.status = 503
    /\ lastStep.error.code = "invalid_credentials"
    /\ lastStep.statusBefore = "connected"
    /\ connectionStatus = "connected"
    /\ lastError = CredentialsMessage

\* a step of an invocation of signUp or signIn: its call or one of its
\* continuations
SignStep ==
    \E i \in CallSlots :
       \/ SignUp(i)
       \/ SignIn(i)
       \/ \E res \in ProbeResults : SignUpProbe(i, res) \/ SignInProbe(i, res)
       \/ \E res \in SignUpResults, uid \in Ids : SignUpCall(i, res, uid)
       \/ SignUpDelay(i)
       \/ \E res \in InsertResults, rememberMe \in BOOLEAN : SignUpInsert(i, res, rememberMe)
       \/ \E res \in AuthResults, uid \in Ids, rememberMe \in BOOLEAN :
             SignInCall(i, res, uid, rememberMe)

\* C19: no step of signUp or signIn changes the persisted flag, whether the
\* invocation goes on or rejects there, except the step in which it resolves,
\* which leaves the flag "true" if rememberMe was true and absent otherwise.
C19_FlagOnlyOnSuccess ==
    [][/\ (storedFlag' # storedFlag /\ SignStep) =>
             lastStep'.kind = "settled" /\ lastStep'.result = "resolved"
       /\ (lastStep'.kind = "settled" /\ lastStep'.result = "resolved"
             /\ lastStep'.op \in {"signUp", "signIn"}) =>
             storedFlag' = IF lastStep'.rememberMe THEN "true" ELSE Null]_vars

\* signUp rejected by its profile insert, the flag set before and after
C19_Witness ==
    /\ IsSettled /\ lastStep.op = "signUp" /\ lastStep.result = "rejected"
    /\ lastStep.called /\ lastStep.error.message = NetworkMessage
    /\ lastStep.flagBefore = "true" /\ storedFlag = "true"

\* a step of an invocation of a public action: its call or one of its
\* continuations
ActionStep ==
    \/ SignStep
    \/ \E i \in CallSlots :
          \/ SignOut(i)
          \/ ResetPassword(i)
          \/ UpdatePassword(i)
          \/ \E res \in ProbeResults : ResetPasswordProbe(i, res)
          \/ \E res \in SignOutResults : SignOutCall(i, res)
          \/ \E res \in PlainResults : ResetPasswordCall(i, res) \/ UpdatePasswordCall(i, res)

\* the step just taken ended a profile fetch that found the row, in
\* initializeAuth or in the event handler
FetchedProfile ==
    \/ lastStep.kind = "booted" /\ lastStep.exit = "fetched"
    \/ lastStep.kind = "reacted" /\ lastStep.found

\* C20: a step of a public action changes user only when it is the step in
\* which signOut resolves, and that step leaves user null; every step that
\* gives user a new non-null value ends a successful profile fetch of
\* initializeAuth or of the event handler.
C20_ActionsNeverSetUser ==
    [][/\ (user' # user /\ ActionStep) =>
             /\ lastStep'.kind = "settled"
             /\ lastStep'.op = "signOut"
             /\ lastStep'.result = "resolved"
       /\ (lastStep'.kind = "settled" /\ lastStep'.op = "signOut"
             /\ lastStep'.result = "resolved") => user' = NoUser
       /\ (user' # user /\ user' # NoUser) => FetchedProfile']_vars

\* signOut resolves for a signed-in user
C20_Witness ==
    /\ IsSettled /\ lastStep.op = "signOut" /\ lastStep.result = "resolved"
    /\ lastStep.direct /\ lastStep.before.user = "u1" /\ user = NoUser

====
